---- MODULE Spec2Model ----
(***************************************************************************)
(* Price tracker (product_price_tracker-main): the tracking run of         *)
(* utils/playwright_price_scraper.py, the evaluation rules it applies, and *)
(* the price history store of utils/db.py.                                 *)
(*                                                                         *)
(* Conventions of the model                                                *)
(*  - Python None / SQL NULL is the empty tuple None; a present value v of *)
(*    an optional field is the 1-tuple <<v>>.                              *)
(*  - Prices and thresholds are whole currency units.  A percentage that   *)
(*    the code rounds to 2 decimals is kept in hundredths of a percent     *)
(*    (33.33 % is 3333).                                                   *)
(*  - A URL is the sequence of its parts; the substring test               *)
(*    `"amazon" in url` is membership of the part "amazon".                *)
(*  - scrape_amazon / scrape_flipkart, send_report and the system clock    *)
(*    are outside the repository's sources: their results are inputs.      *)
(***************************************************************************)
EXTENDS Integers, Sequences, FiniteSets, TLC

(* ------------------------------ bounds ------------------------------- *)
MaxProducts == 3      \* longest catalog
MaxPrice == 3         \* prices of the evaluation inputs: 0..MaxPrice
MaxThreshold == 2     \* thresholds of the evaluation inputs: 1..MaxThreshold
MaxStorePrice == 2    \* prices of the store inputs: 0..MaxStorePrice
MaxLedger == 3        \* rows the store specification appends
MaxRuns == 1          \* tracking runs started in one behaviour
MaxShared == 1        \* longest catalog two overlapping runs share
MaxLimit == 1         \* limits of get_price_history: 0..MaxLimit
MaxReadRows == 2      \* rows in the table when the reads are repeated
MaxRows == 3          \* rows of products.csv at which add_product is still tried

(* playwright_price_scraper.py:20  current_price, original_price = 10e9, 10e9.
   Scaled: the model only needs a value above every price and threshold.   *)
DefaultPrice == 10

None == <<>>
Some(v) == <<v>>
IsNone(x) == x = None

Prices == 0..MaxPrice
Thresholds == 1..MaxThreshold

Runs == {"sched", "manual"}

VARIABLES
  catalog,         \* products.csv: the rows below the header
  ledger,          \* table price_history, in id order (row i has id i)
  now,             \* last value datetime.now() returned
  tie_order,       \* how the SQL engine orders rows its ORDER BY leaves tied
  pc,              \* per run: position in track_prices
  products,        \* per run: local `products`
  idx,             \* per run: 1-based position of the for loop
  info,            \* per run: local `info` of the current iteration
  results,         \* per run: list bound to the name `results`
  report_details,  \* per run: list bound to the name `report_details`
  console,         \* per run: lines printed by the loop
  table,           \* per run: rows display_price_table printed
  sent,            \* per run: batches passed to send_report
  log,             \* per run (history): per processed product, the adapter's
                   \*   answer, scrape_product's result, id of the row written
  started,         \* number of runs started
  ev,              \* evaluation specification: inputs and computed values
  summary,         \* last result of get_product_summary
  history,         \* last call of get_price_history: arguments and result
  again,           \* result of repeating the last read, nothing written since
  reqs,            \* per request handler of app.py: the request it is serving
  live             \* (history) names added with success and not deleted since

runVars == <<pc, products, idx, info, results, report_details, console, table,
             sent, log, started>>
storeVars == <<ledger, now, tie_order>>
readVars == <<summary, history, again>>
apiVars == <<reqs, live>>
vars == <<catalog, ledger, now, tie_order, pc, products, idx, info, results,
          report_details, console, table, sent, log, started, ev, summary,
          history, again, reqs, live>>

(* --------------------------- small helpers --------------------------- *)
\* round-half-even of n / d for d > 0 (Python round())
RoundHalfEven(n, d) ==
  LET q == n \div d
      rem == n - q * d
  IN IF 2 * rem < d THEN q
     ELSE IF 2 * rem > d THEN q + 1
     ELSE IF q % 2 = 0 THEN q ELSE q + 1

\* round(num / den * 100, 2), in hundredths of a percent
round2pct(num, den) == RoundHalfEven(num * 10000, den)

\* `part in url`
InUrl(part, url) == \E i \in DOMAIN url : url[i] = part

(* ----------------------- products.csv, fetch_products ----------------- *)
\* products.csv as first written, rows below the header:
\* [name, url, platform, threshold]; threshold is the cell after the
\* cleaning of common.py:44-47 (None: nothing numeric left), name "" is an
\* empty cell.
CsvFile ==
  << [name |-> "lamp", url |-> <<"www", "flipkart", "com">>,
      platform |-> "flipkart", threshold |-> Some(1)],
     [name |-> "", url |-> <<"www", "amazon", "in">>,
      platform |-> "amazon", threshold |-> Some(1)],
     [name |-> "kettle", url |-> <<"www", "amazon", "in">>,
      platform |-> "amazon", threshold |-> Some(2)],
     \* host written in capitals: add_product lower-cases the URL only for
     \* its own check (app.py:98-100) and stores it as submitted
     [name |-> "mug", url |-> <<"www", "AMAZON", "in">>,
      platform |-> "amazon", threshold |-> Some(2)],
     [name |-> "vase", url |-> <<"www", "amazon", "in">>,
      platform |-> "amazon", threshold |-> Some(1)] >>

RECURSIVE Pick(_, _, _)
\* the rows of f at the positions in S, in the order of f, from position k
Pick(f, S, k) ==
  IF k > Len(f) THEN <<>>
  ELSE IF k \in S THEN <<f[k]>> \o Pick(f, S, k + 1)
       ELSE Pick(f, S, k + 1)

\* the catalogs: CsvFile with rows removed, at most MaxProducts left
Catalogs ==
  { Pick(CsvFile, S, 1) :
      S \in { T \in SUBSET DOMAIN CsvFile : Cardinality(T) <= MaxProducts } }

\* str.lower() on the strings the model submits (app.py:83, 98, 107)
lower(str) ==
  CASE str = "Lamp" -> "lamp"
    [] str = "AMAZON" -> "amazon"
    [] OTHER -> str

\* str.strip() on the strings the model submits (common.py:61)
strip(str) ==
  CASE str = " lamp" -> "lamp"
    [] OTHER -> str

\* products.csv missing or undecodable: open() or the reader raises
\* (common.py:39-40)
Unreadable == << [error |-> "FileNotFoundError"] >>

RECURSIVE fetch_products_unchecked(_)
\* faulty variant of fetch_products: no row is skipped
fetch_products_unchecked(rows) ==
  IF rows = <<>> \/ rows = Unreadable THEN <<>>
  ELSE <<[name |-> strip(Head(rows).name), url |-> Head(rows).url,
          platform |-> Head(rows).platform,
          threshold |-> Head(rows).threshold[1]]>>
         \o fetch_products_unchecked(Tail(rows))

RECURSIVE fetch_products(_)
\* common.py:34-76: the rows with a numeric threshold, a name and a URL;
\* the empty list when reading raised (common.py:70-75)
fetch_products(rows) ==
  IF rows = <<>> \/ rows = Unreadable THEN <<>>
  ELSE LET row == Head(rows)
           rest == fetch_products(Tail(rows))
       IN IF IsNone(row.threshold) THEN rest
          ELSE IF row.name = "" \/ row.url = <<>> THEN rest
          ELSE <<[name |-> strip(row.name), url |-> row.url,
                  platform |-> row.platform,
                  threshold |-> row.threshold[1]]>> \o rest

(* --------------------------- evaluation rules ------------------------- *)
\* playwright_price_scraper.py:35-39
discountPercent(original_price, current_price) ==
  IF original_price > current_price
    THEN round2pct(original_price - current_price, original_price)
    ELSE 0

\* faulty variant of send_email: the threshold itself does not qualify
send_email_strict(current_price, original_price, threshold) ==
  (current_price < original_price) /\ (current_price < threshold)

\* playwright_price_scraper.py:41-43
send_email(current_price, original_price, threshold) ==
  (current_price < original_price) /\ (current_price <= threshold)

\* playwright_price_scraper.py:107-109, the check of the loop
loop_check(current_price, original_price, threshold) ==
  (current_price < original_price) /\ (current_price <= threshold)

\* playwright_price_scraper.py:45-51
status(current_price, original_price, threshold) ==
  IF send_email(current_price, original_price, threshold)
    THEN <<"[OK] Threshold & Discount Met">>
  ELSE IF current_price > threshold
    THEN <<"[X] Above threshold by Rs", current_price - threshold>>
  ELSE <<"[X] No Email (no discount)">>

\* What scrape_amazon / scrape_flipkart can answer: None or
\* (current_price, original_price).
Quotes == { <<2, 3>>, <<2, 2>> }
AdapterAnswers == {None} \cup Quotes

\* playwright_price_scraper.py:22-33: which scraper the URL selects
adapter(url) ==
  IF InUrl("amazon", url) THEN "amazon"
  ELSE IF InUrl("flipkart", url) THEN "flipkart"
  ELSE "none"

\* playwright_price_scraper.py:16-62; answer is what the selected scraper
\* returned (unused when no scraper is selected).  None is `return None`.
scrape_product(product, answer) ==
  IF adapter(product.url) # "none" /\ IsNone(answer) THEN None
  ELSE
    LET current_price == IF adapter(product.url) = "none" THEN DefaultPrice
                         ELSE answer[1]
        original_price == IF adapter(product.url) = "none" THEN DefaultPrice
                          ELSE answer[2]
    IN Some([name |-> product.name,
             url |-> product.url,
             current_price |-> current_price,
             original_price |-> original_price,
             discount |-> discountPercent(original_price, current_price),
             threshold |-> product.threshold,
             status |-> status(current_price, original_price,
                               product.threshold),
             send_email |-> send_email(current_price, original_price,
                                       product.threshold)])

(* ------------------------- utils/db.py: the store --------------------- *)
\* faulty variant of max_price: the SELECT without its WHERE clause
max_price_any(L, name) ==
  LET ps == { L[i].price : i \in DOMAIN L }
  IN IF ps = {} THEN None
     ELSE Some(CHOOSE m \in ps : \A q \in ps : q <= m)

\* db.py:49-52  SELECT MAX(price) FROM price_history WHERE name = ?
max_price(L, name) ==
  LET ps == { L[i].price : i \in { j \in DOMAIN L : L[j].name = name } }
  IN IF ps = {} THEN None
     ELSE Some(CHOOSE m \in ps : \A q \in ps : q <= m)

\* db.py:48-53: original_price is None (not passed) or <<value>>
stored_original(L, name, price, original_price) ==
  IF IsNone(original_price)
    THEN LET m == max_price(L, name)
         IN IF ~IsNone(m) /\ m[1] # 0 /\ m[1] > price THEN m[1] ELSE price
    ELSE original_price[1]

\* faulty variant of save_price: price and threshold bound to each other's column
save_price_swapped(L, name, url, platform, price, threshold, original_price, date) ==
  Append(L, [id |-> Len(L) + 1,
             name |-> name,
             url |-> url,
             platform |-> platform,
             price |-> threshold,
             original_price |-> stored_original(L, name, price, original_price),
             threshold |-> price,
             date |-> date])

\* faulty variant of save_price: the row of a product already in the table
\* is replaced rather than a new one added
save_price_upsert(L, name, url, platform, price, threshold, original_price, date) ==
  LET old == { i \in DOMAIN L : L[i].name = name }
      row == [id |-> Len(L) + 1, name |-> name, url |-> url,
              platform |-> platform, price |-> price,
              original_price |-> stored_original(L, name, price, original_price),
              threshold |-> threshold, date |-> date]
  IN IF old = {} THEN Append(L, row)
     ELSE [i \in DOMAIN L |-> IF i \in old THEN [row EXCEPT !.id = i] ELSE L[i]]

\* db.py:33-60: the table after the INSERT; date is what datetime.now()
\* returned, the id is the next AUTOINCREMENT value
save_price(L, name, url, platform, price, threshold, original_price, date) ==
  Append(L, [id |-> Len(L) + 1,
             name |-> name,
             url |-> url,
             platform |-> platform,
             price |-> price,
             original_price |-> stored_original(L, name, price, original_price),
             threshold |-> threshold,
             date |-> date])

\* datetime.now() (db.py:58): the clock never runs backwards in the model,
\* and two calls can return the same value
ClockReadings == {now, now + 1}

(* ----------------- utils/common.py: display_price_table --------------- *)
\* common.py:107-109
shown_discount(original, current) ==
  IF original > 0 THEN round2pct(original - current, original) ELSE 0

RECURSIVE unique_results(_, _)
\* common.py:93-100: first occurrence of every name
unique_results(res, seen_products) ==
  IF res = <<>> THEN <<>>
  ELSE IF Head(res).name \in seen_products
    THEN unique_results(Tail(res), seen_products)
  ELSE <<Head(res)>> \o
       unique_results(Tail(res), seen_products \cup {Head(res).name})

\* common.py:78-112: the rows added to the table
display_price_table(res) ==
  LET u == unique_results(res, {})
  IN [ i \in DOMAIN u |->
         [name |-> u[i].name,
          current |-> u[i].current_price,
          desired |-> u[i].threshold,
          discount |-> shown_discount(u[i].original_price,
                                      u[i].current_price)] ]

(* ------------- utils/playwright_price_scraper.py: track_prices -------- *)
\* faulty variant of eligible_reports: the accumulated list goes out as it is
eligible_reports_unfiltered(details) == details

RECURSIVE eligible_reports(_)
\* playwright_price_scraper.py:120-125
eligible_reports(details) ==
  IF details = <<>> THEN <<>>
  ELSE LET item == Head(details)
       IN IF (item.current_price < item.original_price)
             /\ (item.current_price <= item.threshold)
            THEN <<item>> \o eligible_reports(Tail(details))
            ELSE eligible_reports(Tail(details))

\* faulty variant of should_send: send_report is called whatever the batch holds
should_send_always(batch) == batch = batch

\* playwright_price_scraper.py:127
should_send(batch) == batch # <<>>

\* playwright_price_scraper.py:88: where the for loop goes after the
\* product at position i of n
loop_next(i, n) == IF i < n THEN "scrape" ELSE "post"

TypeOK ==
  /\ catalog \in Catalogs \cup {Unreadable}
  /\ pc \in [Runs -> {"idle", "scrape", "handle", "post", "done", "raised"}]
  /\ started \in 0..MaxRuns

\* the clients whose requests app.py serves at the same time (Flask serves
\* each request in a thread of its own)
Clients == {"c1", "c2"}

\* no request under way
ApiInit ==
  /\ reqs = [c \in Clients |-> [pc |-> "idle"]]
  /\ live = {}

RunInit ==
  /\ pc = [r \in Runs |-> "idle"]
  /\ products = [r \in Runs |-> <<>>]
  /\ idx = [r \in Runs |-> 0]
  /\ info = [r \in Runs |-> None]
  /\ results = [r \in Runs |-> <<>>]
  /\ report_details = [r \in Runs |-> <<>>]
  /\ console = [r \in Runs |-> <<>>]
  /\ table = [r \in Runs |-> <<>>]
  /\ sent = [r \in Runs |-> <<>>]
  /\ log = [r \in Runs |-> <<>>]
  /\ started = 0

Init ==
  /\ catalog \in Catalogs \cup {Unreadable}
  /\ ledger = <<>>
  /\ now = 0
  /\ tie_order = "lowest_id"
  /\ RunInit
  /\ ev = None
  /\ summary = None
  /\ history = None
  /\ again = None
  /\ ApiInit

\* playwright_price_scraper.py:65-71 (run_scrape_job, app.py:23-28, starts
\* the run "sched"; trigger_scrape, app.py:243-259, the run "manual")
BeginRun(r) ==
  /\ started' = started + 1
  /\ LET ps == fetch_products(catalog)
     IN /\ products' = [products EXCEPT ![r] = ps]
        /\ IF ps = <<>>
             THEN /\ console' = [console EXCEPT
                                   ![r] = << <<"No products to track">> >>]
                  /\ pc' = [pc EXCEPT ![r] = "done"]
                  /\ idx' = [idx EXCEPT ![r] = 0]
             ELSE /\ console' = [console EXCEPT ![r] = <<>>]
                  /\ pc' = [pc EXCEPT ![r] = "scrape"]
                  /\ idx' = [idx EXCEPT ![r] = 1]
  /\ info' = [info EXCEPT ![r] = None]
  /\ results' = [results EXCEPT ![r] = <<>>]
  /\ report_details' = [report_details EXCEPT ![r] = <<>>]
  /\ table' = [table EXCEPT ![r] = <<>>]
  /\ sent' = [sent EXCEPT ![r] = <<>>]
  /\ log' = [log EXCEPT ![r] = <<>>]
  /\ UNCHANGED <<catalog, ledger, now, tie_order, ev, apiVars, readVars>>

\* the positions at which a runner has no run under way: never started,
\* track_prices returned, or it raised (app.py:25-28, 249-250)
Ended == {"idle", "done", "raised"}

\* app.py:23-28, 243-259: a runner that has no run under way starts one
StartRun(r) ==
  /\ pc[r] \in Ended
  /\ started < MaxRuns
  /\ BeginRun(r)

\* playwright_price_scraper.py:89: info = await scrape_product(page, product)
ScrapeProduct(r) ==
  /\ pc[r] = "scrape"
  /\ LET product == products[r][idx[r]]
     IN \E answer \in AdapterAnswers :
          /\ adapter(product.url) = "none" => answer = None
          /\ info' = [info EXCEPT ![r] = scrape_product(product, answer)]
          /\ log' = [log EXCEPT ![r] =
                       Append(@, [product |-> product,
                                  adapter |-> adapter(product.url),
                                  answer |-> answer,
                                  info |-> scrape_product(product, answer),
                                  row |-> 0])]
  /\ pc' = [pc EXCEPT ![r] = "handle"]
  /\ UNCHANGED <<catalog, ledger, now, tie_order, products, idx, results, report_details,
                 console, table, sent, started, ev, apiVars, readVars>>

\* playwright_price_scraper.py:90-110: the branch `if info:`.  `results`
\* and `report_details` name one list object (line 71), so an append
\* through either name shows through both.
SavedStep(r) ==
  LET product == products[r][idx[r]]
      inf == info[r][1]
      current_price == inf.current_price
      l1 == Append(results[r], inf)
      l2 == IF loop_check(current_price, inf.original_price,
                          product.threshold)
              THEN Append(l1, inf) ELSE l1
  IN /\ \E date \in ClockReadings :
          /\ ledger' = save_price(ledger, product.name, product.url,
                                  product.platform, current_price,
                                  product.threshold,
                                  Some(inf.original_price), date)
          /\ now' = date
     /\ results' = [results EXCEPT ![r] = l2]
     /\ report_details' = [report_details EXCEPT ![r] = l2]
     /\ console' = [console EXCEPT ![r] =
                      Append(@, <<"price", product.name, current_price,
                                  product.threshold>>)]
     /\ log' = [log EXCEPT ![r][idx[r]].row = Len(ledger) + 1]
     /\ idx' = [idx EXCEPT ![r] = @ + 1]
     /\ pc' = [pc EXCEPT ![r] = loop_next(idx[r], Len(products[r]))]

\* faulty variant of FailedStep: a failed product ends the run
FailedStepReturns(r) ==
  /\ console' = [console EXCEPT ![r] =
                   Append(@, <<"[X] Failed to fetch price for",
                               products[r][idx[r]].name>>)]
  /\ idx' = [idx EXCEPT ![r] = @ + 1]
  /\ pc' = [pc EXCEPT ![r] = "done"]
  /\ UNCHANGED <<ledger, now, results, report_details, log>>

\* playwright_price_scraper.py:111-112: the branch `else:`
FailedStep(r) ==
  /\ console' = [console EXCEPT ![r] =
                   Append(@, <<"[X] Failed to fetch price for",
                               products[r][idx[r]].name>>)]
  /\ idx' = [idx EXCEPT ![r] = @ + 1]
  /\ pc' = [pc EXCEPT ![r] = loop_next(idx[r], Len(products[r]))]
  /\ UNCHANGED <<ledger, now, results, report_details, log>>

\* playwright_price_scraper.py:90-112: the rest of one loop iteration
HandleInfo(r) ==
  /\ pc[r] = "handle"
  /\ IF ~IsNone(info[r]) THEN SavedStep(r) ELSE FailedStep(r)
  /\ UNCHANGED <<catalog, tie_order, products, info, table, sent, started, ev, apiVars,
                 readVars>>

\* playwright_price_scraper.py:114-130
PostLoop(r) ==
  /\ pc[r] = "post"
  /\ table' = [table EXCEPT ![r] =
                 IF results[r] # <<>> THEN display_price_table(results[r])
                 ELSE <<>>]
  /\ LET batch == eligible_reports(report_details[r])
     IN IF should_send(batch)
          THEN /\ sent' = [sent EXCEPT ![r] = Append(@, batch)]
               /\ UNCHANGED console
          ELSE /\ console' = [console EXCEPT ![r] =
                                Append(@, <<"Skipping email">>)]
               /\ UNCHANGED sent
  /\ pc' = [pc EXCEPT ![r] = "done"]
  /\ UNCHANGED <<catalog, ledger, now, tie_order, products, idx, info, results,
                 report_details, log, started, ev, apiVars, readVars>>

\* A run starts while no other run is under way: this specification is of
\* runs that do not overlap.
SoloStart(r) ==
  /\ \A q \in Runs : pc[q] \in Ended
  /\ StartRun(r)

Next ==
  \E r \in Runs :
    \/ SoloStart(r)
    \/ ScrapeProduct(r)
    \/ HandleInfo(r)
    \/ PostLoop(r)

Spec == Init /\ [][Next]_vars

(* ================= claims about the tracking run (Spec) ================ *)
\* position k of the run's log has been through the rest of its iteration
Handled(r, k) == k \in DOMAIN log[r] /\ k < idx[r]

\* the scraper selected for the entry answered None
AdapterFailed(e) == e.adapter # "none" /\ IsNone(e.answer)
\* the scraper selected for the entry answered with prices
AdapterSucceeded(e) == e.adapter # "none" /\ ~IsNone(e.answer)

C1_State ==
  \A r \in Runs :
    /\ pc[r] \in {"post", "done"} => Len(log[r]) = Len(products[r])
    /\ \A k \in DOMAIN log[r] :
         LET e == log[r][k]
         IN /\ e.product = products[r][k]
            /\ Handled(r, k) /\ AdapterFailed(e) => e.row = 0
            /\ Handled(r, k) /\ AdapterSucceeded(e) =>
                 /\ e.row \in DOMAIN ledger
                 /\ ledger[e.row].name = e.product.name
                 /\ ledger[e.row].price = e.answer[1]
                 /\ ledger[e.row].original_price = e.answer[2]

C1_Step ==
  \A r \in Runs :
    (pc[r] = "handle" /\ pc'[r] # "handle" /\ AdapterFailed(log[r][idx[r]])) =>
      /\ ledger' = ledger
      /\ idx'[r] = idx[r] + 1
      /\ pc'[r] = IF idx[r] < Len(products[r]) THEN "scrape" ELSE "post"

\* C1: a product whose scraper answers "not found" never aborts the run:
\* the step that handles it writes nothing and goes on to the next product
\* (or, after the last one, to the end of the run); every product of the
\* list is scraped; every product whose scraper answered has its row in the
\* ledger, with the scraped prices, and the failed one has none.
C1_FailureNeverAborts == []C1_State /\ [][C1_Step]_vars

\* C1 witness: a finished run over 3 products, the second failed, the other
\* two written: exactly 2 rows
C1_Witness ==
  \E r \in Runs :
    /\ pc[r] = "done"
    /\ Len(log[r]) = 3
    /\ AdapterSucceeded(log[r][1]) /\ log[r][1].row = 1
    /\ AdapterFailed(log[r][2]) /\ log[r][2].row = 0
    /\ AdapterSucceeded(log[r][3]) /\ log[r][3].row = 2
    /\ Len(ledger) = 2

\* C2: a product for which no scraper is selected is a scrape failure: no
\* result, no row written for it, not in the reports.
C2_NoAdapterIsFailure ==
  \A r \in Runs :
    \A k \in DOMAIN log[r] :
      Handled(r, k) /\ log[r][k].adapter = "none" =>
        /\ IsNone(log[r][k].info)
        /\ log[r][k].row = 0
        /\ \A i \in DOMAIN report_details[r] :
             report_details[r][i].name # log[r][k].product.name

RECURSIVE EligibleOf(_)
\* the results of the log's products that were scraped and are eligible, in
\* processing order, one each
EligibleOf(lg) ==
  IF lg = <<>> THEN <<>>
  ELSE IF ~IsNone(Head(lg).info) /\ Head(lg).info[1].send_email
    THEN <<Head(lg).info[1]>> \o EligibleOf(Tail(lg))
  ELSE EligibleOf(Tail(lg))

\* C3: the batch handed to send_report is exactly the eligible results of
\* this run, in processing order, each once.
C3_BatchIsEligibleOnce ==
  \A r \in Runs :
    \A i \in DOMAIN sent[r] : sent[r][i] = EligibleOf(log[r])

\* C4: send_report is called at most once in a run, only after the loop has
\* gone through every product, exactly once if some product of the run was
\* eligible and not at all otherwise.
C4_NotifyAtMostOnce ==
  \A r \in Runs :
    /\ Len(sent[r]) <= 1
    /\ pc[r] # "done" => sent[r] = <<>>
    /\ sent[r] # <<>> => Len(log[r]) = Len(products[r])
    /\ pc[r] = "done" => (Len(sent[r]) = 1 <=> EligibleOf(log[r]) # <<>>)

\* C4 witness: a finished run with an eligible and a non-eligible product,
\* notified once
C4_Witness ==
  \E r \in Runs :
    /\ pc[r] = "done"
    /\ Len(sent[r]) = 1
    /\ \E k \in DOMAIN log[r] :
         ~IsNone(log[r][k].info) /\ ~log[r][k].info[1].send_email
    /\ \E k \in DOMAIN log[r] :
         ~IsNone(log[r][k].info) /\ log[r][k].info[1].send_email

\* ids of the rows the run wrote, in processing order
RECURSIVE RowsOf(_)
RowsOf(lg) ==
  IF lg = <<>> THEN <<>>
  ELSE IF Head(lg).row # 0 THEN <<Head(lg).row>> \o RowsOf(Tail(lg))
  ELSE RowsOf(Tail(lg))

C5_State ==
  \A r \in Runs :
    /\ pc[r] # "idle" => products[r] = fetch_products(catalog)
    /\ \A k \in DOMAIN log[r] :
         LET e == log[r][k]
         IN /\ e.product = products[r][k]
            /\ Handled(r, k) => (e.row # 0 <=> ~IsNone(e.info))
            /\ AdapterSucceeded(e) =>
                 /\ e.info[1].current_price = e.answer[1]
                 /\ e.info[1].original_price = e.answer[2]
            /\ e.row # 0 =>
                 /\ e.row \in DOMAIN ledger
                 /\ ledger[e.row].name = e.product.name
                 /\ ledger[e.row].url = e.product.url
                 /\ ledger[e.row].platform = e.product.platform
                 /\ ledger[e.row].threshold = e.product.threshold
                 /\ ledger[e.row].price = e.info[1].current_price
                 /\ ledger[e.row].original_price = e.info[1].original_price
    /\ \A i, j \in DOMAIN RowsOf(log[r]) :
         i < j => RowsOf(log[r])[i] < RowsOf(log[r])[j]
    \* while a later product is being scraped, the earlier rows are there
    /\ pc[r] \in {"scrape", "handle"} =>
         \A k \in 1..(idx[r] - 1) :
           ~IsNone(log[r][k].info) => log[r][k].row \in DOMAIN ledger

C5_Step ==
  \/ ledger' = ledger
  \/ \E r \in Runs :
       /\ pc[r] = "handle" /\ ~IsNone(info[r])
       /\ idx'[r] = idx[r] + 1
       /\ Len(ledger') = Len(ledger) + 1
       /\ SubSeq(ledger', 1, Len(ledger)) = ledger
       /\ log'[r][idx[r]].row = Len(ledger')

EvalProduct(t) ==
  [name |-> "kettle", url |-> <<"www", "amazon", "in">>,
   platform |-> "amazon", threshold |-> t]

EvalInit ==
  /\ catalog = <<>>
  /\ ledger = <<>>
  /\ now = 0
  /\ tie_order = "lowest_id"
  /\ RunInit
  /\ summary = None
  /\ history = None
  /\ again = None
  /\ ApiInit
  /\ ev \in { [stage |-> "input", current |-> c, original |-> o,
               threshold |-> t, info |-> None, appended |-> FALSE,
               shown |-> <<>>] :
                 c \in Prices, o \in Prices, t \in Thresholds }

\* playwright_price_scraper.py:89
EvalScrape ==
  /\ ev.stage = "input"
  /\ ev' = [ev EXCEPT
              !.stage = "scraped",
              !.info = scrape_product(EvalProduct(ev.threshold),
                                      <<ev.current, ev.original>>)]
  /\ UNCHANGED <<catalog, storeVars, runVars, readVars, apiVars>>

\* playwright_price_scraper.py:106-110
EvalLoopCheck ==
  /\ ev.stage = "scraped"
  /\ ev' = [ev EXCEPT
              !.stage = "checked",
              !.appended = loop_check(ev.info[1].current_price,
                                      ev.info[1].original_price,
                                      EvalProduct(ev.threshold).threshold)]
  /\ UNCHANGED <<catalog, storeVars, runVars, readVars, apiVars>>

\* playwright_price_scraper.py:116-117
EvalDisplay ==
  /\ ev.stage = "checked"
  /\ ev' = [ev EXCEPT !.stage = "shown",
                      !.shown = display_price_table(<<ev.info[1]>>)]
  /\ UNCHANGED <<catalog, storeVars, runVars, readVars, apiVars>>

EvalNext == EvalScrape \/ EvalLoopCheck \/ EvalDisplay

SpecEval == EvalInit /\ [][EvalNext]_vars

\* C6: a scraped product is eligible iff current < original and
\* current <= threshold; the send_email flag of scrape_product and the check
\* of the loop both say so, and agree.
C6_EligibleIff ==
  ev # None /\ ev.stage \in {"checked", "shown"} =>
    LET spec_eligible == ev.current < ev.original /\ ev.current <= ev.threshold
    IN /\ ev.info[1].send_email = spec_eligible
       /\ ev.appended = spec_eligible
       /\ ev.info[1].send_email = ev.appended

\* C6 witness: a price equal to the threshold and below the original has
\* been evaluated
C6_Witness ==
  /\ ev # None /\ ev.stage = "checked"
  /\ ev.current = ev.threshold /\ ev.current < ev.original
  /\ ev.appended

\* C7: the discount percent is >= 0 and is 0 whenever current >= original,
\* in the result of scrape_product and in the row display_price_table shows
\* for it.
C7_DiscountNonNegative ==
  ev # None /\ ev.stage = "shown" =>
    /\ ev.info[1].discount >= 0
    /\ ev.current >= ev.original => ev.info[1].discount = 0
    /\ ev.shown[1].discount >= 0
    /\ ev.current >= ev.original => ev.shown[1].discount = 0

(* ============== the store on its own (SpecStore): db.py ================ *)
\* ids of the rows of a product
RowsNamed(L, name) == { i \in DOMAIN L : L[i].name = name }

\* The engine's order among rows that ORDER BY leaves tied: SQL does not
\* fix it, db.py does not ask for one.  SQLite returns them in rowid
\* order ("lowest_id"); the other engine is the one the tie-break by higher
\* id would need.
TieOrders == {"lowest_id", "highest_id"}

\* row i comes before row j under ORDER BY date DESC with the engine `tie`
DateDescBefore(L, tie, i, j) ==
  \/ L[i].date > L[j].date
  \/ /\ L[i].date = L[j].date
     /\ IF tie = "lowest_id" THEN i < j ELSE i > j

RECURSIVE OrderByDateDesc(_, _, _)
\* the ids in S as ORDER BY date DESC returns them
OrderByDateDesc(L, tie, S) ==
  IF S = {} THEN <<>>
  ELSE LET first == CHOOSE i \in S :
                      \A j \in S \ {i} : DateDescBefore(L, tie, i, j)
       IN <<first>> \o OrderByDateDesc(L, tie, S \ {first})

\* db.py:126-128  (SELECT price ... WHERE ph2.name = ph1.name
\*                 ORDER BY date DESC LIMIT 1 OFFSET 1)
previous_price(L, tie, name) ==
  LET ord == OrderByDateDesc(L, tie, RowsNamed(L, name))
  IN IF Len(ord) >= 2 THEN Some(L[ord[2]].price) ELSE None

\* db.py:129-134: the rows of ph1 the join keeps, those dated MAX(date) of
\* their name
LatestRows(L, name) ==
  { i \in RowsNamed(L, name) :
      \A j \in RowsNamed(L, name) : L[j].date <= L[i].date }

\* db.py:143, 158-159: the first of the rows fetched for a name; rows of one
\* name arrive in the engine's order
first_row(L, tie, name) ==
  CHOOSE i \in LatestRows(L, name) :
    \A j \in LatestRows(L, name) \ {i} :
      IF tie = "lowest_id" THEN i < j ELSE i > j

\* faulty variant of Truthy: the test `is not None`
is_not_none(x) == ~IsNone(x)

\* Python truth value of an optional number (db.py:148, 150)
Truthy(x) == ~IsNone(x) /\ x[1] # 0

\* faulty variant of summary_entry: original_price read from the row of the
\* product with the lowest id, the other fields from the first fetched row
summary_entry_mixed(L, tie, name) ==
  LET row == L[first_row(L, tie, name)]
      oldest == L[CHOOSE i \in RowsNamed(L, name) :
                    \A j \in RowsNamed(L, name) : i <= j]
      prev == previous_price(L, tie, name)
  IN [name |-> name,
      url |-> row.url,
      platform |-> row.platform,
      current_price |-> row.price,
      original_price |-> oldest.original_price,
      threshold |-> row.threshold,
      previous_price |-> prev,
      price_change |-> IF Truthy(prev) THEN Some(row.price - prev[1])
                       ELSE None,
      price_change_percent |->
        IF Truthy(prev)
          THEN Some([num |-> (row.price - prev[1]) * 100, den |-> prev[1]])
          ELSE None,
      last_updated |-> row.date]

\* db.py:144-171: the dict built from one fetched row
summary_entry(L, tie, name) ==
  LET row == L[first_row(L, tie, name)]
      current_price == row.price
      prev == previous_price(L, tie, name)
      original_price == IF row.original_price # 0 THEN row.original_price
                        ELSE current_price
  IN [name |-> name,
      url |-> row.url,
      platform |-> row.platform,
      current_price |-> current_price,
      original_price |-> original_price,
      threshold |-> row.threshold,
      previous_price |-> prev,
      price_change |-> IF Truthy(prev) THEN Some(current_price - prev[1])
                       ELSE None,
      \* the quotient (current - previous) / previous * 100, as num / den
      price_change_percent |->
        IF Truthy(prev)
          THEN Some([num |-> (current_price - prev[1]) * 100, den |-> prev[1]])
          ELSE None,
      last_updated |-> row.date]

\* ORDER BY ph1.name (db.py:135): the names the model uses, in that order
NameOrder == <<"kettle", "lamp", "mug", "vase">>

RECURSIVE entries_of(_, _, _, _)
\* one entry for each of the rows S, as the statement returns them
entries_of(L, tie, name, S) ==
  IF S = {} THEN <<>>
  ELSE <<summary_entry(L, tie, name)>>
         \o entries_of(L, tie, name, S \ {CHOOSE i \in S : TRUE})

RECURSIVE summary_per_row(_, _, _)
\* faulty variant of summary_from: every fetched row becomes an entry
summary_per_row(L, tie, k) ==
  IF k > Len(NameOrder) THEN <<>>
  ELSE entries_of(L, tie, NameOrder[k], LatestRows(L, NameOrder[k]))
         \o summary_per_row(L, tie, k + 1)

RECURSIVE summary_from(_, _, _)
\* db.py:138-173: one entry per name with rows, in name order
summary_from(L, tie, k) ==
  IF k > Len(NameOrder) THEN <<>>
  ELSE IF RowsNamed(L, NameOrder[k]) = {} THEN summary_from(L, tie, k + 1)
  ELSE <<summary_entry(L, tie, NameOrder[k])>> \o summary_from(L, tie, k + 1)

\* db.py:110-173
get_product_summary(L, tie) == summary_from(L, tie, 1)

\* Python truth value of an optional string (db.py:81)
TruthyName(name) == ~IsNone(name) /\ name[1] # ""

\* faulty variant of take: one row more than asked for
take_one_more(ord, n) ==
  IF n < 0 \/ n + 1 >= Len(ord) THEN ord ELSE SubSeq(ord, 1, n + 1)

\* LIMIT ? (db.py:87, 94): the first n of the rows; SQLite takes a negative
\* LIMIT to mean no limit
take(ord, n) ==
  IF n < 0 \/ n >= Len(ord) THEN ord ELSE SubSeq(ord, 1, n)

\* db.py:75-108: name is None (not passed) or <<string>>
get_price_history(L, tie, name, limit) ==
  LET S == IF TruthyName(name) THEN RowsNamed(L, name[1]) ELSE DOMAIN L
      ord == take(OrderByDateDesc(L, tie, S), limit)
  IN [k \in DOMAIN ord |-> L[ord[k]]]

\* the products whose prices the store specification records
StoreProducts == fetch_products(Pick(CsvFile, {1, 3}, 1))
StorePrices == 0..MaxStorePrice

StoreInit ==
  /\ catalog = <<>>
  /\ ledger = <<>>
  /\ now = 0
  /\ tie_order \in TieOrders
  /\ RunInit
  /\ ev = None
  /\ summary = None
  /\ history = None
  /\ again = None
  /\ ApiInit

\* db.py:33-60, called with or without original_price
SavePrice ==
  /\ Len(ledger) < MaxLedger
  /\ \E k \in DOMAIN StoreProducts, price \in StorePrices,
        original_price \in {None, Some(MaxStorePrice)},
        date \in ClockReadings :
       /\ ledger' = save_price(ledger, StoreProducts[k].name,
                               StoreProducts[k].url, StoreProducts[k].platform,
                               price, StoreProducts[k].threshold,
                               original_price, date)
       /\ now' = date
  /\ summary' = None
  /\ history' = None
  /\ again' = None
  /\ UNCHANGED <<catalog, tie_order, runVars, ev, apiVars>>

\* faulty variant of GetProductSummary: the read also drops the rows that
\* are not the latest of their product
GetProductSummaryPruning ==
  /\ IsNone(summary)
  /\ summary' = Some(get_product_summary(ledger, tie_order))
  /\ ledger' = LET keep == { i \in DOMAIN ledger :
                              i = first_row(ledger, tie_order, ledger[i].name) }
               IN [k \in 1..Cardinality(keep) |->
                     ledger[CHOOSE i \in keep :
                              Cardinality({ j \in keep : j <= i }) = k]]
  /\ again' = None
  /\ UNCHANGED <<catalog, now, tie_order, runVars, ev, apiVars, history>>

\* db.py:110-173 (GET /api/products/summary, app.py:186)
GetProductSummary ==
  /\ IsNone(summary)
  /\ summary' = Some(get_product_summary(ledger, tie_order))
  /\ again' = None
  /\ UNCHANGED <<catalog, storeVars, runVars, ev, apiVars, history>>

\* the names and limits get_price_history is called with: no name, an
\* empty one, a product's, and one no row carries
HistoryNames == {None, Some(""), Some("lamp"), Some("sofa")}
Limits == 0..MaxLimit

\* db.py:75-108 (GET /api/prices/history, app.py:230-240)
GetPriceHistory ==
  /\ IsNone(history)
  /\ \E name \in HistoryNames, limit \in Limits :
       history' = Some([name |-> name, limit |-> limit,
                        rows |-> get_price_history(ledger, tie_order, name,
                                                   limit)])
  /\ again' = None
  /\ UNCHANGED <<catalog, storeVars, runVars, ev, apiVars, summary>>

StoreNext == SavePrice \/ GetProductSummary

SpecStore == StoreInit /\ [][StoreNext]_vars

\* the prices recorded for a product, in the order of the save_price calls
RECURSIVE PricesOf(_, _)
PricesOf(L, name) ==
  IF L = <<>> THEN <<>>
  ELSE IF Head(L).name = name THEN <<Head(L).price>> \o PricesOf(Tail(L), name)
  ELSE PricesOf(Tail(L), name)

\* C8: after N save_price calls for a product, the summary's current_price is
\* the N-th price and previous_price the (N-1)-th (absent when N = 1).
C8_PreviousIsSecondLatest ==
  ~IsNone(summary) =>
    \A i \in DOMAIN summary[1] :
      LET e == summary[1][i]
          ps == PricesOf(ledger, e.name)
          N == Len(ps)
      IN /\ e.current_price = ps[N]
         /\ e.previous_price = IF N >= 2 THEN Some(ps[N - 1]) ELSE None

\* C9: of two observations of a product with the same timestamp, the one
\* inserted later is the current one and the earlier one the previous one.
C9_TieBreakByInsertion ==
  ~IsNone(summary) =>
    \A i \in DOMAIN summary[1] :
      LET e == summary[1][i]
          rows == RowsNamed(ledger, e.name)
      IN \A a, b \in rows :
           (a < b /\ ledger[a].date = ledger[b].date
            /\ \A c \in rows : ledger[c].date <= ledger[b].date
            /\ \A d \in rows \ {a, b} : ledger[d].date < ledger[b].date) =>
             /\ e.current_price = ledger[b].price
             /\ e.previous_price = Some(ledger[a].price)

\* C10: price_change is current_price - previous_price for every product
\* that has a previous observation, and is null only when it has none.
C10_PriceChange ==
  ~IsNone(summary) =>
    \A i \in DOMAIN summary[1] :
      LET e == summary[1][i]
      IN IF Cardinality(RowsNamed(ledger, e.name)) >= 2
           THEN /\ ~IsNone(e.previous_price)
                /\ e.price_change = Some(e.current_price - e.previous_price[1])
           ELSE IsNone(e.price_change)

\* C11: get_product_summary never divides by zero: the percent change is
\* null when the previous price is 0, and is (current - previous) / previous
\* * 100 whenever there is a previous price other than 0.
C11_NoDivisionByZero ==
  ~IsNone(summary) =>
    \A i \in DOMAIN summary[1] :
      LET e == summary[1][i]
          pct == e.price_change_percent
      IN /\ ~IsNone(pct) => pct[1].den # 0
         /\ e.previous_price = Some(0) => IsNone(pct)
         /\ (~IsNone(e.previous_price) /\ e.previous_price # Some(0)) =>
              pct = Some([num |-> (e.current_price - e.previous_price[1]) * 100,
                          den |-> e.previous_price[1]])

C11_Witness ==
  /\ ~IsNone(summary)
  /\ \E i \in DOMAIN summary[1] :
       /\ summary[1][i].previous_price = Some(0)
       /\ summary[1][i].current_price # 0
       /\ IsNone(summary[1][i].price_change_percent)

(* ====== save_price called without original_price (SpecInfer) =========== *)
\* db.py:33-60 with the default original_price=None
SaveObserved ==
  /\ Len(ledger) < MaxLedger
  /\ \E k \in DOMAIN StoreProducts, price \in StorePrices,
        date \in ClockReadings :
       /\ ledger' = save_price(ledger, StoreProducts[k].name,
                               StoreProducts[k].url, StoreProducts[k].platform,
                               price, StoreProducts[k].threshold, None, date)
       /\ now' = date
  /\ summary' = None
  /\ history' = None
  /\ again' = None
  /\ UNCHANGED <<catalog, tie_order, runVars, ev, apiVars>>

InferNext == SaveObserved

SpecInfer == StoreInit /\ [][InferNext]_vars

\* C12: a row saved without an explicit original_price stores, as
\* original_price, the greatest price recorded for its product up to and
\* including that row; the rows of other products play no part.
C12_OriginalIsRunningMax ==
  \A i \in DOMAIN ledger :
    LET own == { ledger[j].price :
                   j \in { q \in 1..i : ledger[q].name = ledger[i].name } }
    IN /\ ledger[i].original_price \in own
       /\ \A q \in own : q <= ledger[i].original_price

C12_Witness ==
  \E i, j, k \in DOMAIN ledger :
    /\ i < j /\ j < k
    /\ ledger[i].name = ledger[k].name
    /\ ledger[j].name # ledger[i].name
    /\ ledger[j].price > ledger[i].price
    /\ ledger[i].price > ledger[k].price
    /\ ledger[k].original_price = ledger[i].price

(* ========= runs that overlap, and reads (SpecOverlap) ================== *)
\* the catalogs the overlapping runs read
SharedCatalogs == { c \in Catalogs : Len(c) <= MaxShared }

OverlapInit ==
  /\ catalog \in SharedCatalogs
  /\ ledger = <<>>
  /\ now = 0
  /\ tie_order = "lowest_id"
  /\ RunInit
  /\ ev = None
  /\ summary = None
  /\ history = None
  /\ again = None
  /\ ApiInit

\* app.py:31-41 starts the scheduled run in the scheduler's thread and
\* app.py:249-256 the manual one in a thread of its own, whatever the other
\* is doing
OverlapStart(r) ==
  /\ pc[r] = "idle"
  /\ BeginRun(r)

\* one request is served between two writes: a summary (app.py:186) or a
\* history (app.py:236)
ServeSummary ==
  /\ IsNone(history)
  /\ GetProductSummary

ServeHistory ==
  /\ IsNone(summary)
  /\ GetPriceHistory

OverlapNext ==
  \/ \E r \in Runs :
       \/ OverlapStart(r)
       \/ ScrapeProduct(r)
       \/ HandleInfo(r)
       \/ PostLoop(r)
  \/ ServeSummary
  \/ ServeHistory

SpecOverlap == OverlapInit /\ [][OverlapNext]_vars

\* the names carried by the rows of a table
NamesIn(L) == { L[i].name : i \in DOMAIN L }

\* C13: whatever the runs have written when the summary is read, also
\* between the save_price calls of two runs under way, the summary has
\* exactly one entry for every name with a row and none for any other name.
C13_Step ==
  (IsNone(summary) /\ ~IsNone(summary')) =>
    LET s == summary'[1]
    IN /\ \A i, j \in DOMAIN s : s[i].name = s[j].name => i = j
       /\ { s[i].name : i \in DOMAIN s } = NamesIn(ledger)

C13_OneEntryPerName == [][C13_Step]_vars

\* a summary read while both runs are under way, one of them having written
\* and the other about to write a row for the same product
C13_Witness ==
  /\ ~IsNone(summary)
  /\ summary[1] # <<>>
  /\ Len(ledger) = 1
  /\ \E r \in Runs : pc[r] = "handle" /\ ~IsNone(info[r])
  /\ \E r \in Runs : pc[r] = "post" /\ Len(log[r]) = 1 /\ log[r][1].row = 1

\* the products a run scraped successfully
Successes(lg) == { k \in DOMAIN lg : ~IsNone(lg[k].info) }

\* two runs that got the same answers from the adapters
SameAnswers(lg1, lg2) ==
  /\ Len(lg1) = Len(lg2)
  /\ \A k \in DOMAIN lg1 : lg1[k].answer = lg2[k].answer

\* C14: the table only grows at its end: what it held before a step is a
\* prefix of what it holds after; and two completed runs that met the same
\* upstream prices leave one row each per successfully scraped product.
C14_Step ==
  /\ Len(ledger) <= Len(ledger')
  /\ SubSeq(ledger', 1, Len(ledger)) = ledger

C14_State ==
  \A r, q \in Runs :
    (r # q /\ pc[r] = "done" /\ pc[q] = "done"
     /\ SameAnswers(log[r], log[q])) =>
      /\ Len(ledger) = 2 * Cardinality(Successes(log[r]))
      /\ \A k \in Successes(log[r]) :
           /\ log[r][k].row # log[q][k].row
           /\ ledger[log[r][k].row].price = ledger[log[q][k].row].price

C14_AppendOnly == []C14_State /\ [][C14_Step]_vars

\* a run, then a second one that met the same prices: two equal rows, the
\* second written after the first run's table was printed
C14_Witness ==
  /\ pc["sched"] = "done" /\ pc["manual"] = "done"
  /\ SameAnswers(log["sched"], log["manual"])
  /\ Len(ledger) = 2
  /\ ledger[1].price = ledger[2].price
  /\ ledger[1].name = ledger[2].name
  /\ ledger[1].date < ledger[2].date

(* ====== runs in which a collaborator raises (SpecFault) ================ *)
\* what the caller of track_prices prints when it raises: run_scrape_job
\* catches and prints (app.py:25-28), the thread of trigger_scrape has no
\* handler (app.py:248-249)
caught(r, what) ==
  IF r = "sched" THEN << <<"Error in scheduled scrape", what>> >> ELSE <<>>

\* playwright_price_scraper.py:90-105 when save_price raises (the INSERT or
\* the commit of db.py:55-59 fails): the loop has no handler, so the
\* exception leaves track_prices
SaveRaises(r) ==
  /\ pc[r] = "handle"
  /\ ~IsNone(info[r])
  /\ LET product == products[r][idx[r]]
         inf == info[r][1]
         l1 == Append(results[r], inf)
     IN /\ results' = [results EXCEPT ![r] = l1]
        /\ report_details' = [report_details EXCEPT ![r] = l1]
        /\ console' = [console EXCEPT ![r] =
                         Append(@, <<"price", product.name, inf.current_price,
                                     product.threshold>>)
                           \o caught(r, "save_price")]
  /\ pc' = [pc EXCEPT ![r] = "raised"]
  /\ UNCHANGED <<catalog, storeVars, products, idx, info, table, sent, log,
                 started, ev, apiVars, readVars>>

\* playwright_price_scraper.py:114-128 when send_report raises: the call is
\* the last statement of track_prices and has no handler
SendRaises(r) ==
  /\ pc[r] = "post"
  /\ should_send(eligible_reports(report_details[r]))
  /\ table' = [table EXCEPT ![r] =
                 IF results[r] # <<>> THEN display_price_table(results[r])
                 ELSE <<>>]
  /\ sent' = [sent EXCEPT ![r] =
                Append(@, eligible_reports(report_details[r]))]
  /\ console' = [console EXCEPT ![r] = @ \o caught(r, "send_report")]
  /\ pc' = [pc EXCEPT ![r] = "raised"]
  /\ UNCHANGED <<catalog, storeVars, products, idx, info, results,
                 report_details, log, started, ev, apiVars, readVars>>

FaultNext ==
  \E r \in Runs :
    \/ SoloStart(r)
    \/ ScrapeProduct(r)
    \/ HandleInfo(r)
    \/ PostLoop(r)
    \/ SaveRaises(r)
    \/ SendRaises(r)

SpecFault == Init /\ [][FaultNext]_vars

\* C15: a save_price that raises costs the run that one row only: the run
\* goes on to scrape every remaining product, writes their rows, and ends
\* with the table and the notification step.
C15_StoreFailureContained ==
  \A r \in Runs :
    (pc[r] \in {"done", "raised"} /\ products[r] # <<>>) =>
      /\ Len(log[r]) = Len(products[r])
      /\ results[r] # <<>> => table[r] # <<>>
      /\ \/ sent[r] # <<>>
         \/ \E i \in DOMAIN console[r] : console[r][i] = <<"Skipping email">>

\* C17: a send_report that raises does not make the run fail: no run that
\* has called send_report ends by raising.
C17_NotifierFailureContained ==
  \A r \in Runs : ~(pc[r] = "raised" /\ sent[r] # <<>>)

(* ============= the run and its catalog (Spec), continued =============== *)
\* a catalog that gives no product: the file cannot be read, or none of its
\* rows has a name, a URL and a threshold
NoValidRows(c) ==
  \/ c = Unreadable
  \/ \A i \in DOMAIN c :
       c[i].name = "" \/ c[i].url = <<>> \/ IsNone(c[i].threshold)

\* C16: with a catalog that cannot be read or gives no product, a run ends
\* at once and cleanly: nothing scraped, no row written, no table, no
\* notification, no exception.
C16_EmptyCatalogEndsCleanly ==
  \A r \in Runs :
    (pc[r] # "idle" /\ NoValidRows(catalog)) =>
      /\ pc[r] = "done"
      /\ products[r] = <<>>
      /\ log[r] = <<>>
      /\ results[r] = <<>>
      /\ table[r] = <<>>
      /\ sent[r] = <<>>
      /\ ledger = <<>>
      /\ console[r] = << <<"No products to track">> >>

C16_Witness ==
  /\ catalog = Unreadable
  /\ \E r \in Runs : pc[r] = "done"

\* the row a run wrote for the k-th product it processed
WrittenBy(r, k) == log[r][k].row

\* the observation fields of a summary entry are those of row i
EntryOfRow(e, i) ==
  /\ e.name = ledger[i].name
  /\ e.url = ledger[i].url
  /\ e.platform = ledger[i].platform
  /\ e.current_price = ledger[i].price
  /\ e.threshold = ledger[i].threshold
  /\ e.last_updated = ledger[i].date
  /\ e.original_price = IF ledger[i].original_price # 0
                          THEN ledger[i].original_price ELSE ledger[i].price

\* C18: with two runs under way at once, every row a run wrote is in the
\* table once, with the fields of that one write, and no other row is there;
\* every summary entry and every history row is one row of the table.
C18_WritesAtomic ==
  /\ \A r \in Runs : \A k \in DOMAIN log[r] :
       WrittenBy(r, k) # 0 =>
         /\ WrittenBy(r, k) \in DOMAIN ledger
         /\ LET row == ledger[WrittenBy(r, k)]
                lg == log[r][k]
            IN /\ row.id = WrittenBy(r, k)
               /\ row.name = lg.product.name
               /\ row.url = lg.product.url
               /\ row.platform = lg.product.platform
               /\ row.threshold = lg.product.threshold
               /\ row.price = lg.info[1].current_price
               /\ row.original_price = lg.info[1].original_price
  /\ \A r, q \in Runs : \A k \in DOMAIN log[r], j \in DOMAIN log[q] :
       (WrittenBy(r, k) # 0 /\ WrittenBy(r, k) = WrittenBy(q, j)) =>
         (r = q /\ k = j)
  /\ \A i \in DOMAIN ledger :
       \E r \in Runs : \E k \in DOMAIN log[r] : WrittenBy(r, k) = i
  /\ \A r \in Runs : \A k \in DOMAIN log[r] :
       (~IsNone(log[r][k].info) /\ (k < idx[r] \/ pc[r] \in {"post", "done"}))
         => WrittenBy(r, k) # 0
  /\ ~IsNone(summary) =>
       \A n \in DOMAIN summary[1] :
         \E i \in DOMAIN ledger : EntryOfRow(summary[1][n], i)
  /\ ~IsNone(history) =>
       \A n \in DOMAIN history[1].rows :
         \E i \in DOMAIN ledger : history[1].rows[n] = ledger[i]

\* the two runs have written the same product with different prices, and
\* the summary was read when both rows were there
C18_Witness ==
  /\ Len(ledger) = 2
  /\ ledger[1].name = ledger[2].name
  /\ ledger[1].original_price # ledger[2].original_price
  /\ WrittenBy("sched", 1) # 0 /\ WrittenBy("manual", 1) # 0
  /\ ~IsNone(summary)
  /\ \E n \in DOMAIN summary[1] : ~IsNone(summary[1][n].previous_price)

(* ================= the read paths (SpecReads): db.py =================== *)
\* db.py:33-60, while the table is short enough for every read to be tried
ReadsSave ==
  /\ Len(ledger) < MaxReadRows
  /\ SaveObserved

\* the request just served is made once more (app.py:186, 236)
RepeatSummary ==
  /\ ~IsNone(summary)
  /\ IsNone(again)
  /\ again' = Some([op |-> "get_product_summary",
                    result |-> get_product_summary(ledger, tie_order)])
  /\ UNCHANGED <<catalog, storeVars, runVars, ev, apiVars, summary, history>>

RepeatHistory ==
  /\ ~IsNone(history)
  /\ IsNone(again)
  /\ again' = Some([op |-> "get_price_history",
                    result |-> get_price_history(ledger, tie_order,
                                                 history[1].name,
                                                 history[1].limit)])
  /\ UNCHANGED <<catalog, storeVars, runVars, ev, apiVars, summary, history>>

ReadsNext ==
  \/ ReadsSave
  \/ ServeSummary
  \/ ServeHistory
  \/ RepeatSummary
  \/ RepeatHistory

SpecReads == StoreInit /\ [][ReadsNext]_vars

\* the smaller of two numbers
Smaller(a, b) == IF a <= b THEN a ELSE b

C20_Step ==
  (\/ ~IsNone(summary') /\ summary' # summary
   \/ ~IsNone(history') /\ history' # history
   \/ ~IsNone(again') /\ again' # again) =>
    /\ ledger' = ledger
    /\ now' = now

C20_State ==
  ~IsNone(again) =>
    /\ again[1].op = "get_product_summary" =>
         (~IsNone(summary) /\ again[1].result = summary[1])
    /\ again[1].op = "get_price_history" =>
         (~IsNone(history) /\ again[1].result = history[1].rows)

C20_ReadsIdempotent == []C20_State /\ [][C20_Step]_vars

C20_Witness ==
  /\ ~IsNone(again)
  /\ again[1].op = "get_product_summary"
  /\ Len(again[1].result) = 2
  /\ Len(ledger) = 2

(* ============ the batch at dispatch (Spec), continued ================== *)
\* C21: every item of a batch passed to send_report has a current price
\* below its original price and not above its threshold.
C21_BatchAllEligible ==
  \A r \in Runs : \A b \in DOMAIN sent[r] : \A n \in DOMAIN sent[r][b] :
    LET item == sent[r][b][n]
    IN /\ item.current_price < item.original_price
       /\ item.current_price <= item.threshold

\* a batch was sent from a list that also held an item not eligible
C21_Witness ==
  \E r \in Runs :
    /\ pc[r] = "done"
    /\ sent[r] # <<>>
    /\ \E n \in DOMAIN report_details[r] :
         LET item == report_details[r][n]
         IN ~(item.current_price < item.original_price
              /\ item.current_price <= item.threshold)

(* ========= the catalog requests of app.py (SpecCatalog, SpecRequests) == *)
\* the bodies POST /api/products is called with: names that differ in case
\* or by a leading blank, and a threshold the validation rejects
SubmitNames == {"lamp", "Lamp", " lamp", "mug"}
Submissions ==
  { [name |-> n, url |-> <<"www", "amazon", "in">>, platform |-> "amazon",
     threshold |-> t] : n \in SubmitNames, t \in {0, 1} }

\* the names DELETE /api/products/<product_name> is called with
DeleteNames == {"Lamp", "mug", "sofa"}

\* app.py:82-100: platform, threshold and URL of a submitted product
valid(data) ==
  /\ lower(data.platform) \in {"amazon", "flipkart"}
  /\ data.threshold > 0
  /\ \E i \in DOMAIN data.url : lower(data.url[i]) = lower(data.platform)

\* app.py:106-108, 146-149: a product of the list has the name, whatever
\* the case
named(listed, name) ==
  \E i \in DOMAIN listed : lower(listed[i].name) = lower(name)

\* app.py:158-168: the rows delete_product writes back
RECURSIVE rows_without(_, _)
rows_without(listed, name) ==
  IF listed = <<>> THEN <<>>
  ELSE IF lower(Head(listed).name) = lower(name)
    THEN rows_without(Tail(listed), name)
  ELSE <<[name |-> Head(listed).name, url |-> Head(listed).url,
          platform |-> Head(listed).platform,
          threshold |-> Some(Head(listed).threshold)]>>
         \o rows_without(Tail(listed), name)

CatalogInit ==
  /\ catalog \in {<<>>, Pick(CsvFile, {1}, 1), Pick(CsvFile, {3}, 1)}
  /\ ledger = <<>>
  /\ now = 0
  /\ tie_order = "lowest_id"
  /\ RunInit
  /\ ev = None
  /\ summary = None
  /\ history = None
  /\ again = None
  /\ ApiInit

\* app.py:72-108: add_product up to the check for an existing name
AddProduct(c) ==
  /\ reqs[c].pc = "idle"
  /\ Len(catalog) < MaxRows
  /\ \E data \in Submissions :
       reqs' = [reqs EXCEPT ![c] =
                  IF ~valid(data) THEN [pc |-> "idle", status |-> 400]
                  ELSE IF named(fetch_products(catalog), data.name)
                    THEN [pc |-> "idle", status |-> 400]
                  ELSE [pc |-> "append", data |-> data]]
  /\ UNCHANGED <<catalog, storeVars, runVars, ev, readVars, live>>

\* app.py:110-132: the row is appended to the file as submitted
AppendRow(c) ==
  /\ reqs[c].pc = "append"
  /\ catalog' = Append(catalog,
                       [name |-> reqs[c].data.name,
                        url |-> reqs[c].data.url,
                        platform |-> lower(reqs[c].data.platform),
                        threshold |-> Some(reqs[c].data.threshold)])
  /\ live' = live \cup {reqs[c].data.name}
  /\ reqs' = [reqs EXCEPT ![c] = [pc |-> "idle", status |-> 200]]
  /\ UNCHANGED <<storeVars, runVars, ev, readVars>>

\* app.py:137-153: delete_product up to the check that the product exists
DeleteProduct(c) ==
  /\ reqs[c].pc = "idle"
  /\ \E product_name \in DeleteNames :
       LET listed == fetch_products(catalog)
       IN reqs' = [reqs EXCEPT ![c] =
                     IF ~named(listed, product_name)
                       THEN [pc |-> "idle", status |-> 404]
                     ELSE [pc |-> "rewrite", product_name |-> product_name,
                           products |-> listed]]
  /\ UNCHANGED <<catalog, storeVars, runVars, ev, readVars, live>>

\* app.py:155-173: the file is written anew from the list read before
RewriteFile(c) ==
  /\ reqs[c].pc = "rewrite"
  /\ catalog' = rows_without(reqs[c].products, reqs[c].product_name)
  /\ live' = { n \in live :
                lower(strip(n)) # lower(reqs[c].product_name) }
  /\ reqs' = [reqs EXCEPT ![c] = [pc |-> "idle", status |-> 200]]
  /\ UNCHANGED <<storeVars, runVars, ev, readVars>>

\* requests served one after the other
NoRequest == \A c \in Clients : reqs[c].pc = "idle"

CatalogNext ==
  \E c \in Clients :
    \/ NoRequest /\ AddProduct(c)
    \/ AppendRow(c)
    \/ NoRequest /\ DeleteProduct(c)
    \/ RewriteFile(c)

SpecCatalog == CatalogInit /\ [][CatalogNext]_vars

\* requests served at the same time
RequestsNext ==
  \E c \in Clients :
    \/ AddProduct(c)
    \/ AppendRow(c)
    \/ DeleteProduct(c)
    \/ RewriteFile(c)

SpecRequests == CatalogInit /\ [][RequestsNext]_vars

\* C22: whatever add_product and delete_product requests were served, one
\* after the other, no two products fetch_products returns have names that
\* are equal up to case.
C22_NamesUnique ==
  LET ps == fetch_products(catalog)
  IN \A i, j \in DOMAIN ps :
       lower(ps[i].name) = lower(ps[j].name) => i = j

\* C23: a product added with success and not deleted since is in the
\* catalog, whatever other requests are served at the same time.
C23_AddedStays ==
  \A n \in live : named(fetch_products(catalog), strip(n))

====
